---------------------------- MODULE Spec2Model ----------------------------
(***************************************************************************)
(* A model of get_events_artists.py: the Last.fm event scraper.            *)
(*                                                                         *)
(* Python strings are modelled as sequences of Unicode code points, so     *)
(* that str.lower, str.upper, str.isalpha, startswith, endswith, `in`,     *)
(* split and the ordering of strings are computed as Python computes them. *)
(***************************************************************************)
EXTENDS Integers, Sequences, FiniteSets, TLC

(***************************************************************************)
(* String literals of the source.                                          *)
(***************************************************************************)
\* 'https://www.last.fm'
BASE_URL == <<104, 116, 116, 112, 115, 58, 47, 47, 119, 119, 119, 46, 108, 97, 115, 116, 46, 102, 109>>
\* '/event/'
STR_EVENT == <<47, 101, 118, 101, 110, 116, 47>>
\* '/attendance'
STR_ATTENDANCE == <<47, 97, 116, 116, 101, 110, 100, 97, 110, 99, 101>>
\* '/going'
STR_GOING == <<47, 103, 111, 105, 110, 103>>
\* '/interested'
STR_INTERESTED == <<47, 105, 110, 116, 101, 114, 101, 115, 116, 101, 100>>
\* '/lineup'
STR_LINEUP == <<47, 108, 105, 110, 101, 117, 112>>
\* 'the '
STR_THE == <<116, 104, 101, 32>>
\* 'ABCDEFGHIJKLMNOPQRSTUVWXYZ'
STR_AZ == <<65, 66, 67, 68, 69, 70, 71, 72, 73, 74, 75, 76, 77, 78, 79, 80, 81, 82, 83, 84, 85, 86, 87, 88, 89, 90>>
\* 'https://'
STR_HTTPS == <<104, 116, 116, 112, 115, 58, 47, 47>>
\* '?'
STR_QMARK == <<63>>
\* '/'
STR_SLASH == <<47>>

(***************************************************************************)
(* Python's str operations, on code points up to U+00FF (and the two       *)
(* upper-case forms that leave that range).                                *)
(***************************************************************************)
\* str.lower() of one character
LowerChar(c) ==
    IF (c >= 65 /\ c <= 90) \/ (c >= 192 /\ c <= 222 /\ c # 215) THEN c + 32 ELSE c

\* str.lower()
Lower(s) == [i \in 1..Len(s) |-> LowerChar(s[i])]

\* str.upper() of one character: a string, since upper() may lengthen it
UpperChar(c) ==
    IF (c >= 97 /\ c <= 122) \/ (c >= 224 /\ c <= 254 /\ c # 247) THEN <<c - 32>>
    ELSE IF c = 223 THEN <<83, 83>>
    ELSE IF c = 255 THEN <<376>>
    ELSE IF c = 181 THEN <<924>>
    ELSE <<c>>

\* the characters of Unicode category L* in the modelled range
IsAlphaChar(c) ==
    \/ c >= 65 /\ c <= 90
    \/ c >= 97 /\ c <= 122
    \/ c \in {170, 181, 186, 376, 924}
    \/ c >= 192 /\ c <= 255 /\ c \notin {215, 247}

\* str.isalpha(): non-empty and every character alphabetic
IsAlpha(s) == Len(s) > 0 /\ \A i \in 1..Len(s) : IsAlphaChar(s[i])

\* str.startswith(p)
StartsWith(s, p) == Len(s) >= Len(p) /\ SubSeq(s, 1, Len(p)) = p

\* str.endswith(p)
EndsWith(s, p) == Len(s) >= Len(p) /\ SubSeq(s, Len(s) - Len(p) + 1, Len(s)) = p

\* p in s
Contains(s, p) ==
    \E i \in 1..(Len(s) - Len(p) + 1) : SubSeq(s, i, i + Len(p) - 1) = p

\* the index of the first occurrence of character c in s, 0 if none
FindChar(s, c) ==
    IF \E i \in 1..Len(s) : s[i] = c
    THEN CHOOSE i \in 1..Len(s) : s[i] = c /\ \A j \in 1..(i - 1) : s[j] # c
    ELSE 0

\* s.split(c)[0]
SplitFirst(s, c) ==
    IF FindChar(s, c) = 0 THEN s ELSE SubSeq(s, 1, FindChar(s, c) - 1)

\* s < t in Python's ordering of strings: lexicographic by code point
StrLess(s, t) ==
    \E k \in 0..Len(s) :
        /\ k <= Len(t)
        /\ \A i \in 1..k : s[i] = t[i]
        /\ \/ k = Len(s) /\ k < Len(t)
           \/ k < Len(s) /\ k < Len(t) /\ s[k + 1] < t[k + 1]

\* x in list
InList(x, list) == \E i \in 1..Len(list) : list[i] = x

(***************************************************************************)
(* urllib.parse.urljoin(BASE_URL, href), for an href with no fragment and  *)
(* no dot segment: an https URL is kept, a reference is resolved against   *)
(* the base (whose path is empty); an empty query loses its '?'.           *)
(***************************************************************************)
urljoin(href) ==
    LET q    == FindChar(href, 63)
        path == IF q = 0 THEN href ELSE SubSeq(href, 1, q - 1)
        qry  == IF q = 0 THEN <<>> ELSE SubSeq(href, q + 1, Len(href))
        tail == IF qry = <<>> THEN <<>> ELSE STR_QMARK \o qry
    IN  IF StartsWith(path, STR_HTTPS) THEN path \o tail
        ELSE IF path = <<>> THEN BASE_URL \o tail
        ELSE IF path[1] = 47 THEN BASE_URL \o path \o tail
        ELSE BASE_URL \o STR_SLASH \o path \o tail

\* Suffixes without '/lineup'
SuffixesWithoutLineup == <<STR_ATTENDANCE, STR_GOING, STR_INTERESTED>>

\* the suffixes stripped at line 68, in the order of the list
Suffixes == <<STR_ATTENDANCE, STR_GOING, STR_INTERESTED, STR_LINEUP>>

\* the for loop of lines 68-70 from its i-th suffix on
RECURSIVE StripSuffixes(_, _)
StripSuffixes(full_url, i) ==
    IF i > Len(Suffixes) THEN full_url
    ELSE IF EndsWith(full_url, Suffixes[i])
         THEN StripSuffixes(SubSeq(full_url, 1, Len(full_url) - Len(Suffixes[i])), i + 1)
         ELSE StripSuffixes(full_url, i + 1)

\* lines 66-72 applied to an absolute URL
CleanUrl(full_url) == StripSuffixes(SplitFirst(full_url, 63), 1) \o STR_LINEUP

\* lines 64-72: the canonical lineup URL of an href
Canonical(href) == CleanUrl(urljoin(href))

\* LinkLoop without the test of line 73
RECURSIVE LinkLoopNoDedup(_, _, _)
LinkLoopNoDedup(event_links, i, event_urls) ==
    IF i > Len(event_links) THEN event_urls
    ELSE IF Contains(event_links[i], STR_EVENT)
         THEN LinkLoopNoDedup(event_links, i + 1, Append(event_urls, Canonical(event_links[i])))
         ELSE LinkLoopNoDedup(event_links, i + 1, event_urls)

\* lines 59-74: the loop over event_links from its i-th link on
RECURSIVE LinkLoop(_, _, _)
LinkLoop(event_links, i, event_urls) ==
    IF i > Len(event_links) THEN event_urls
    ELSE IF Contains(event_links[i], STR_EVENT) /\ ~InList(Canonical(event_links[i]), event_urls)
         THEN LinkLoop(event_links, i + 1, Append(event_urls, Canonical(event_links[i])))
         ELSE LinkLoop(event_links, i + 1, event_urls)

\* lines 47-54: the hrefs of the anchors inside event/card containers, then
\* those of every anchor; a parsed page is a sequence of anchors
\* [href, in_card]
EventLinks(soup) ==
    SelectSeq(soup, LAMBDA a : a.in_card) \o soup

\* lines 40-74: event_urls after the parsing of a listing page fetched with
\* status 200
ExtractEventUrls(soup, event_urls) ==
    LinkLoop([i \in 1..Len(EventLinks(soup)) |-> EventLinks(soup)[i].href], 1, event_urls)


(***************************************************************************)
(* get_artists_from_event: the three heuristics of lines 118-143.  A       *)
(* parsed lineup page is a record of the raw texts each heuristic finds:   *)
(* link_block (a.link-block-target), headings (h1-h3 of class              *)
(* event-detail-artists) and lineup (the first anchor of every li of the   *)
(* lineup section).                                                        *)
(***************************************************************************)
\* the whitespace get_text(strip=True) strips
IsSpace(c) == c \in {9, 10, 11, 12, 13, 32}

\* str.strip()
RECURSIVE Strip(_)
Strip(s) ==
    IF s = <<>> THEN s
    ELSE IF IsSpace(s[1]) THEN Strip(Tail(s))
    ELSE IF IsSpace(s[Len(s)]) THEN Strip(SubSeq(s, 1, Len(s) - 1))
    ELSE s

\* the non-empty stripped texts of a sequence of elements
NamesOf(texts) == {Strip(texts[i]) : i \in 1..Len(texts)} \ {<<>>}

\* lines 118-143: the artists of a lineup page fetched with status 200
ExtractArtists(soup) ==
    NamesOf(soup.link_block) \cup NamesOf(soup.headings) \cup NamesOf(soup.lineup)

(***************************************************************************)
(* sort_artists, lines 221-227.                                            *)
(***************************************************************************)
\* sort_key without the lower() of lines 224-225
sort_key_case_sensitive(artist, ignore_the) ==
    IF ignore_the /\ StartsWith(Lower(artist), STR_THE)
    THEN SubSeq(artist, 5, Len(artist))
    ELSE artist

\* lines 221-225
sort_key(artist, ignore_the) ==
    IF ignore_the /\ StartsWith(Lower(artist), STR_THE)
    THEN Lower(SubSeq(artist, 5, Len(artist)))
    ELSE Lower(artist)

\* a stable insertion: x goes before the first element whose key is greater
StableInsert(list, x, ignore_the) ==
    LET later == {i \in 1..Len(list) :
                     StrLess(sort_key(x, ignore_the), sort_key(list[i], ignore_the))}
        at    == IF later = {} THEN Len(list) + 1
                 ELSE CHOOSE i \in later : \A j \in later : i <= j
    IN  SubSeq(list, 1, at - 1) \o <<x>> \o SubSeq(list, at, Len(list))

\* sorted(order, key=sort_key): a stable sort of the elements in the order
\* the set's iteration yields them
RECURSIVE SortedFrom(_, _, _, _)
SortedFrom(order, i, acc, ignore_the) ==
    IF i > Len(order) THEN acc
    ELSE SortedFrom(order, i + 1, StableInsert(acc, order[i], ignore_the), ignore_the)

\* line 227, for one iteration order of the set
sort_artists(order, ignore_the) == SortedFrom(order, 1, <<>>, ignore_the)

\* the orders in which iterating a set may yield its elements
IterationOrders(S) ==
    {f \in [1..Cardinality(S) -> S] : \A i, j \in 1..Cardinality(S) : f[i] = f[j] => i = j}

(***************************************************************************)
(* format_output_with_headings, lines 241-281.                             *)
(***************************************************************************)
\* '(none)'
STR_NONE == <<40, 110, 111, 110, 101, 41>>
\* '=== '
STR_HEAD_OPEN == <<61, 61, 61, 32>>
\* ' ==='
STR_HEAD_CLOSE == <<32, 61, 61, 61>>
\* '# (Numbers & Symbols)'
STR_NUMSYM == <<35, 32, 40, 78, 117, 109, 98, 101, 114, 115, 32, 38, 32, 83, 121, 109, 98, 111, 108, 115, 41>>

\* f"\n=== {label} ==="
HeadingLine(label) == <<10>> \o STR_HEAD_OPEN \o label \o STR_HEAD_CLOSE

\* lines 248-250 and 269-271: the upper-cased character an artist is
\* grouped by
group_letter(artist, ignore_the) ==
    IF ignore_the /\ StartsWith(Lower(artist), STR_THE) /\ Len(artist) > 4
    THEN UpperChar(artist[5])
    ELSE UpperChar(artist[1])

\* lines 244-259
NumbersSection(sorted_artists, ignore_the) ==
    LET numbers_symbols ==
            SelectSeq(sorted_artists, LAMBDA a : ~IsAlpha(group_letter(a, ignore_the)))
    IN  <<HeadingLine(STR_NUMSYM)>>
        \o (IF numbers_symbols # <<>> THEN numbers_symbols ELSE <<STR_NONE>>)

\* lines 263-279, for one letter
LetterSection(sorted_artists, ignore_the, letter) ==
    LET artists_for_letter ==
            SelectSeq(sorted_artists, LAMBDA a : group_letter(a, ignore_the) = <<letter>>)
    IN  <<HeadingLine(<<letter>>)>>
        \o (IF artists_for_letter # <<>> THEN artists_for_letter ELSE <<STR_NONE>>)

\* lines 262-279: the loop over the letters from the i-th on
RECURSIVE LetterLoop(_, _, _)
LetterLoop(sorted_artists, ignore_the, i) ==
    IF i > Len(STR_AZ) THEN <<>>
    ELSE LetterSection(sorted_artists, ignore_the, STR_AZ[i])
         \o LetterLoop(sorted_artists, ignore_the, i + 1)

\* lines 241-281
format_output_with_headings(sorted_artists, ignore_the) ==
    NumbersSection(sorted_artists, ignore_the) \o LetterLoop(sorted_artists, ignore_the, 1)


(***************************************************************************)
(* Text helpers of main and get_all_event_urls.                            *)
(***************************************************************************)
\* '/user/'
STR_USER == <<47, 117, 115, 101, 114, 47>>
\* '/events'
STR_EVENTS == <<47, 101, 118, 101, 110, 116, 115>>
\* 'Artists ('
STR_ARTISTS_OPEN == <<65, 114, 116, 105, 115, 116, 115, 32, 40>>
\* ' unique):'
STR_ARTISTS_CLOSE == <<32, 117, 110, 105, 113, 117, 101, 41, 58>>

\* str(n) of a natural number, as an f-string formats it
RECURSIVE Decimal(_)
Decimal(n) == IF n < 10 THEN <<48 + n>> ELSE Decimal(n \div 10) \o <<48 + (n % 10)>>

\* line 189: f"{BASE_URL}/user/{username}/events"
main_url(username) == BASE_URL \o STR_USER \o username \o STR_EVENTS

\* line 198: f"{BASE_URL}/user/{username}/events/{year}"
year_url(username, y) == main_url(username) \o STR_SLASH \o Decimal(y)

\* new_urls without the filter of line 202
new_urls_unfiltered(urls, seen) == urls

\* line 202: [url for url in event_urls if url not in all_event_urls]
new_urls(urls, seen) == SelectSeq(urls, LAMBDA u : ~InList(u, seen))

\* '-' * 50
DashLine == [k \in 1..50 |-> 45]

\* lines 367-373
OutputLines(sorted, ignore_the, letter_headings) ==
    <<STR_ARTISTS_OPEN \o Decimal(Len(sorted)) \o STR_ARTISTS_CLOSE>>
    \o (IF letter_headings THEN format_output_with_headings(sorted, ignore_the)
        ELSE <<DashLine>> \o sorted)

\* line 379: '\n'.join(output_lines) + '\n'
RECURSIVE JoinLines(_)
JoinLines(lines) ==
    IF lines = <<>> THEN <<>> ELSE Head(lines) \o <<10>> \o JoinLines(Tail(lines))

(***************************************************************************)
(* The bounds of the model and the inputs drawn within them.               *)
(***************************************************************************)
\* the number of years the year range is drawn from
MaxYears == 2
\* the default of start_year, the first year of the modelled ranges
FirstYear == 2005
\* the retry loops' max_retries
max_retries == 3
max_retries_event == 3
\* the sleeps, in milliseconds
RETRY_SLEEP == 5000
PAGE_SLEEP == 1000
EVENT_SLEEP == 500

\* 'rj'
Username == <<114, 106>>

\* the statuses a response may carry besides 200
ErrorStatuses == {404, 503}

\* '/event/123?utm=a'
H_123a == <<47, 101, 118, 101, 110, 116, 47, 49, 50, 51, 63, 117, 116, 109, 61, 97>>
\* '/event/123?utm=b'
H_123b == <<47, 101, 118, 101, 110, 116, 47, 49, 50, 51, 63, 117, 116, 109, 61, 98>>
\* '/event/123/attendance'
H_123att == <<47, 101, 118, 101, 110, 116, 47, 49, 50, 51, 47, 97, 116, 116, 101, 110, 100, 97, 110, 99, 101>>
\* 'https://www.last.fm/event/123/lineup'
H_123abs == <<104, 116, 116, 112, 115, 58, 47, 47, 119, 119, 119, 46, 108, 97, 115, 116, 46, 102, 109, 47, 101, 118, 101, 110, 116, 47, 49, 50, 51, 47, 108, 105, 110, 101, 117, 112>>
\* '/event/456/going?x=1'
H_456 == <<47, 101, 118, 101, 110, 116, 47, 52, 53, 54, 47, 103, 111, 105, 110, 103, 63, 120, 61, 49>>
\* '/user/rj'
H_user == <<47, 117, 115, 101, 114, 47, 114, 106>>
\* '/music?next=/event/9'
H_next == <<47, 109, 117, 115, 105, 99, 63, 110, 101, 120, 116, 61, 47, 101, 118, 101, 110, 116, 47, 57>>

\* an anchor of a parsed listing page
Anchor(href, in_card) == [href |-> href, in_card |-> in_card]

\* the listing pages a 200 response may carry
ListingPages ==
    << <<>>,
       <<Anchor(H_user, FALSE), Anchor(H_123a, TRUE), Anchor(H_123b, TRUE)>>,
       <<Anchor(H_123att, FALSE), Anchor(H_456, FALSE)>>,
       <<Anchor(H_456, TRUE), Anchor(H_123abs, FALSE)>> >>

\* ' ABBA '
T_ABBA_sp == <<32, 65, 66, 66, 65, 32>>
\* 'ABBA'
T_ABBA == <<65, 66, 66, 65>>
\* 'the Beatles'
T_the_Beatles == <<116, 104, 101, 32, 66, 101, 97, 116, 108, 101, 115>>
\* 'Zebra'
T_Zebra == <<90, 101, 98, 114, 97>>
\* '123 Band'
T_123_Band == <<49, 50, 51, 32, 66, 97, 110, 100>>
\* '   '
T_blank == <<32, 32, 32>>

\* the lineup pages a 200 response may carry
LineupPages ==
    << [link_block |-> <<>>, headings |-> <<T_blank>>, lineup |-> <<>>],
       [link_block |-> <<T_ABBA_sp>>, headings |-> <<>>, lineup |-> <<T_ABBA, T_the_Beatles>>],
       [link_block |-> <<>>, headings |-> <<T_Zebra>>, lineup |-> <<T_123_Band, T_blank>>] >>

(***************************************************************************)
(* The state of one run of main().                                         *)
(***************************************************************************)
VARIABLES
    pc,              \* the position of main
    args,            \* the parsed command line
    all_event_urls,  \* get_all_event_urls' list, then main's event_urls
    year,            \* the year of get_all_event_urls' loop
    idx,             \* the index i of the harvest loops
    url,             \* the url of the fetch in progress
    attempt,         \* the attempt of the fetch's retry loop
    loop,            \* "running" or "ended": the retry loop of the fetch
    event_urls,      \* get_event_urls_from_page's result
    artists,         \* get_artists_from_event's result
    flog,            \* the requests and sleeps of the fetch in progress
    calls,           \* the fetches and politeness sleeps of the run
    all_artists,
    failed_count,
    sorted_artists,
    output_lines,
    file_text,       \* what was written to the output file
    stdout,          \* the output lines printed
    messages,        \* the reports printed
    exit_status,     \* -1 while running
    page_results     \* what each page fetch returned to get_all_event_urls

\* the inputs and results of the functions checked on their own
VARIABLES phase, input, result, result2

mainVars == <<pc, args, all_event_urls, year, idx, url, attempt, loop, event_urls,
              artists, flog, calls, all_artists, failed_count, sorted_artists,
              output_lines, file_text, stdout, messages, exit_status, page_results>>
fnVars == <<phase, input, result, result2>>
vars == <<mainVars, fnVars>>

\* entries of flog
Response(status, page) == [ev |-> "response", n |-> status, page |-> page]
Raised == [ev |-> "exception", n |-> 0, page |-> 0]
Slept(ms) == [ev |-> "sleep", n |-> ms, page |-> 0]

\* an entry of page_results: the URLs returned and whether a response had
\* status 200
PageResult(urls, log) ==
    [urls |-> urls,
     ok |-> \E k \in 1..Len(log) : log[k].ev = "response" /\ log[k].n = 200]

\* entries of calls
Fetch(fn, u) == [op |-> fn, url |-> u, ms |-> 0]
Sleep(ms) == [op |-> "sleep", url |-> <<>>, ms |-> ms]

\* main() after parse_args, lines 303-311
MainInit ==
    /\ pc = "start"
    /\ args \in [start_year : FirstYear..(FirstYear + MaxYears - 1),
                 end_year : (FirstYear - 1)..(FirstYear + MaxYears - 1),
                 ignore_the : BOOLEAN, letter_headings : BOOLEAN, output : BOOLEAN]
    /\ all_event_urls = <<>>
    /\ year = 0
    /\ idx = 0
    /\ url = <<>>
    /\ attempt = 0
    /\ loop = "ended"
    /\ event_urls = <<>>
    /\ artists = {}
    /\ flog = <<>>
    /\ calls = <<>>
    /\ all_artists = {}
    /\ failed_count = 0
    /\ sorted_artists = <<>>
    /\ output_lines = <<>>
    /\ file_text = <<>>
    /\ stdout = <<>>
    /\ messages = {}
    /\ exit_status = -1
    /\ page_results = <<>>

FnIdle == phase = "none" /\ input = <<>> /\ result = <<>> /\ result2 = <<>>

Init == MainInit /\ FnIdle


(***************************************************************************)
(* get_all_event_urls and get_event_urls_from_page.                        *)
(***************************************************************************)
\* lines 28-29: the locals of get_event_urls_from_page at its entry
EnterPageFetch(u) ==
    /\ url' = u
    /\ event_urls' = <<>>
    /\ attempt' = 0
    /\ loop' = "running"
    /\ flog' = <<>>
    /\ calls' = Append(calls, Fetch("get_event_urls_from_page", u))

\* lines 185-190: the main page is fetched first
CrawlMainPage ==
    /\ pc = "start"
    /\ all_event_urls' = <<>>
    /\ EnterPageFetch(main_url(Username))
    /\ pc' = "fetch_main"
    /\ UNCHANGED <<args, year, idx, artists, all_artists, failed_count, sorted_artists,
                   output_lines, file_text, stdout, messages, exit_status, page_results, fnVars>>

\* AfterFailure with a sleep after the last attempt too
AfterFailureSleepsAlways(entry, limit) ==
    /\ flog' = flog \o <<entry, Slept(RETRY_SLEEP)>>
    /\ attempt' = attempt + 1
    /\ loop' = IF attempt + 1 < limit THEN "running" ELSE "ended"

\* what a failed attempt leaves of the retry loop: lines 81-84 and 90-94
AfterFailure(entry, limit) ==
    /\ flog' = IF attempt < limit - 1
               THEN flog \o <<entry, Slept(RETRY_SLEEP)>>
               ELSE Append(flog, entry)
    /\ attempt' = attempt + 1
    /\ loop' = IF attempt + 1 < limit THEN "running" ELSE "ended"

InPageFetch == pc \in {"fetch_main", "fetch_year"} /\ loop = "running" /\ attempt < max_retries

\* PageAttemptOk without the break of line 78
PageAttemptOkNoBreak(p) ==
    /\ pc \in {"fetch_main", "fetch_year"} /\ loop = "running" /\ attempt < max_retries
    /\ flog' = Append(flog, Response(200, p))
    /\ event_urls' = ExtractEventUrls(ListingPages[p], event_urls)
    /\ attempt' = attempt + 1
    /\ loop' = IF attempt + 1 < max_retries THEN "running" ELSE "ended"
    /\ UNCHANGED <<pc, args, all_event_urls, year, idx, url, artists, calls,
                   all_artists, failed_count, sorted_artists, output_lines, file_text,
                   stdout, messages, exit_status, page_results, fnVars>>

\* lines 35-78: the response has status 200; the page is parsed and the loop left
PageAttemptOk(p) ==
    /\ InPageFetch
    /\ flog' = Append(flog, Response(200, p))
    /\ event_urls' = ExtractEventUrls(ListingPages[p], event_urls)
    /\ loop' = "ended"
    /\ UNCHANGED <<pc, args, all_event_urls, year, idx, url, attempt, artists, calls,
                   all_artists, failed_count, sorted_artists, output_lines, file_text,
                   stdout, messages, exit_status, page_results, fnVars>>

\* lines 79-84: the response has another status
PageAttemptStatus(s) ==
    /\ InPageFetch
    /\ AfterFailure(Response(s, 0), max_retries)
    /\ UNCHANGED <<pc, args, all_event_urls, year, idx, url, event_urls, artists, calls,
                   all_artists, failed_count, sorted_artists, output_lines, file_text,
                   stdout, messages, exit_status, page_results, fnVars>>

\* lines 86-94: requests.get raised a RequestException
PageAttemptException ==
    /\ InPageFetch
    /\ AfterFailure(Raised, max_retries)
    /\ UNCHANGED <<pc, args, all_event_urls, year, idx, url, event_urls, artists, calls,
                   all_artists, failed_count, sorted_artists, output_lines, file_text,
                   stdout, messages, exit_status, page_results, fnVars>>

\* lines 96 and 169: the fetch returns and its locals are gone
LeaveFetch ==
    /\ url' = <<>>
    /\ event_urls' = <<>>
    /\ artists' = {}
    /\ attempt' = 0
    /\ loop' = "ended"
    /\ flog' = <<>>

\* lines 96 and 190-196: the main page's URLs are taken and the year loop starts
CrawlMainMerge ==
    /\ pc = "fetch_main" /\ loop = "ended"
    /\ all_event_urls' = all_event_urls \o event_urls
    /\ calls' = Append(calls, Sleep(PAGE_SLEEP))
    /\ year' = args.start_year
    /\ pc' = "year_loop"
    /\ LeaveFetch
    /\ page_results' = Append(page_results, PageResult(event_urls, flog))
    /\ UNCHANGED <<args, idx, all_artists,
                   failed_count, sorted_artists, output_lines, file_text, stdout,
                   messages, exit_status, fnVars>>

\* lines 196-199: the next year's page is fetched
CrawlYearPage ==
    /\ pc = "year_loop" /\ year <= args.end_year
    /\ EnterPageFetch(year_url(Username, year))
    /\ pc' = "fetch_year"
    /\ UNCHANGED <<args, all_event_urls, year, idx, artists, all_artists, failed_count,
                   sorted_artists, output_lines, file_text, stdout, messages,
                   exit_status, page_results, fnVars>>

\* CrawlYearMerge with the sleep of line 205 only after a page with events
CrawlYearMergeSkipsSleep ==
    /\ pc = "fetch_year" /\ loop = "ended"
    /\ all_event_urls' = all_event_urls \o new_urls(event_urls, all_event_urls)
    /\ calls' = IF event_urls # <<>> THEN Append(calls, Sleep(PAGE_SLEEP)) ELSE calls
    /\ year' = year + 1
    /\ pc' = "year_loop"
    /\ url' = <<>> /\ event_urls' = <<>> /\ artists' = {} /\ attempt' = 0
    /\ loop' = "ended" /\ flog' = <<>>
    /\ page_results' = Append(page_results, PageResult(event_urls, flog))
    /\ UNCHANGED <<args, idx, all_artists,
                   failed_count, sorted_artists, output_lines, file_text, stdout,
                   messages, exit_status, fnVars>>

\* lines 96 and 199-205: the year's new URLs are added
CrawlYearMerge ==
    /\ pc = "fetch_year" /\ loop = "ended"
    /\ all_event_urls' = all_event_urls \o new_urls(event_urls, all_event_urls)
    /\ calls' = Append(calls, Sleep(PAGE_SLEEP))
    /\ year' = year + 1
    /\ pc' = "year_loop"
    /\ LeaveFetch
    /\ page_results' = Append(page_results, PageResult(event_urls, flog))
    /\ UNCHANGED <<args, idx, all_artists,
                   failed_count, sorted_artists, output_lines, file_text, stdout,
                   messages, exit_status, fnVars>>

(***************************************************************************)
(* main after the crawl.                                                   *)
(***************************************************************************)
CrawlDone == pc = "year_loop" /\ year > args.end_year

\* lines 207 and 314-326: no event was found
NoEventsExit ==
    /\ CrawlDone
    /\ all_event_urls = <<>>
    /\ messages' = messages \cup {"No events found"}
    /\ exit_status' = 0
    /\ pc' = "exited"
    /\ page_results' = <<>>
    /\ UNCHANGED <<args, all_event_urls, year, idx, url, attempt, loop, event_urls,
                   artists, flog, calls, all_artists, failed_count, sorted_artists,
                   output_lines, file_text, stdout, fnVars>>

\* HarvestBegin without the exit of lines 324-326
HarvestBeginUnguarded ==
    /\ pc = "year_loop" /\ year > args.end_year
    /\ all_artists' = {}
    /\ failed_count' = 0
    /\ idx' = 1
    /\ pc' = "harvest"
    /\ page_results' = <<>>
    /\ UNCHANGED <<args, all_event_urls, year, url, attempt, loop, event_urls, artists,
                   flog, calls, sorted_artists, output_lines, file_text, stdout,
                   messages, exit_status, fnVars>>

\* lines 207, 314-324 and 328-333: the first harvest loop starts
HarvestBegin ==
    /\ CrawlDone
    /\ all_event_urls # <<>>
    /\ all_artists' = {}
    /\ failed_count' = 0
    /\ idx' = 1
    /\ pc' = "harvest"
    /\ page_results' = <<>>
    /\ UNCHANGED <<args, all_event_urls, year, url, attempt, loop, event_urls, artists,
                   flog, calls, sorted_artists, output_lines, file_text, stdout,
                   messages, exit_status, fnVars>>

\* lines 110-111: the locals of get_artists_from_event at its entry
EnterEventFetch(u) ==
    /\ url' = u
    /\ artists' = {}
    /\ attempt' = 0
    /\ loop' = "running"
    /\ flog' = <<>>
    /\ calls' = Append(calls, Fetch("get_artists_from_event", u))

\* lines 333-339: the first loop calls get_artists_from_event
HarvestCall ==
    /\ pc = "harvest" /\ idx <= Len(all_event_urls)
    /\ EnterEventFetch(all_event_urls[idx])
    /\ pc' = "fetch_event"
    /\ UNCHANGED <<args, all_event_urls, year, idx, event_urls, all_artists,
                   failed_count, sorted_artists, output_lines, file_text, stdout,
                   messages, exit_status, page_results, fnVars>>

InEventFetch ==
    /\ pc \in {"fetch_event", "fetch_event_again"}
    /\ loop = "running" /\ attempt < max_retries_event

\* lines 115-147: the response has status 200
EventAttemptOk(p) ==
    /\ InEventFetch
    /\ flog' = Append(flog, Response(200, p))
    /\ artists' = artists \cup ExtractArtists(LineupPages[p])
    /\ loop' = "ended"
    /\ UNCHANGED <<pc, args, all_event_urls, year, idx, url, attempt, event_urls, calls,
                   all_artists, failed_count, sorted_artists, output_lines, file_text,
                   stdout, messages, exit_status, page_results, fnVars>>

\* lines 148-154: the response has another status
EventAttemptStatus(s) ==
    /\ InEventFetch
    /\ AfterFailure(Response(s, 0), max_retries_event)
    /\ UNCHANGED <<pc, args, all_event_urls, year, idx, url, event_urls, artists, calls,
                   all_artists, failed_count, sorted_artists, output_lines, file_text,
                   stdout, messages, exit_status, page_results, fnVars>>

\* lines 156-167: requests.get raised a RequestException
EventAttemptException ==
    /\ InEventFetch
    /\ AfterFailure(Raised, max_retries_event)
    /\ UNCHANGED <<pc, args, all_event_urls, year, idx, url, event_urls, artists, calls,
                   all_artists, failed_count, sorted_artists, output_lines, file_text,
                   stdout, messages, exit_status, page_results, fnVars>>

\* lines 169 and 339-347: the first loop takes the artists of the event
HarvestMerge ==
    /\ pc = "fetch_event" /\ loop = "ended"
    /\ all_artists' = all_artists \cup artists
    /\ failed_count' = IF artists = {} THEN failed_count + 1 ELSE failed_count
    /\ calls' = Append(calls, Sleep(EVENT_SLEEP))
    /\ idx' = idx + 1
    /\ pc' = "harvest"
    /\ LeaveFetch
    /\ UNCHANGED <<args, all_event_urls, year, sorted_artists, output_lines,
                   file_text, stdout, messages, exit_status, page_results, fnVars>>

\* lines 349-355: the first loop is over and the second one starts
HarvestAgainBegin ==
    /\ pc = "harvest" /\ idx > Len(all_event_urls)
    /\ idx' = 1
    /\ pc' = "harvest_again"
    /\ UNCHANGED <<args, all_event_urls, year, url, attempt, loop, event_urls, artists,
                   flog, calls, all_artists, failed_count, sorted_artists, output_lines,
                   file_text, stdout, messages, exit_status, page_results, fnVars>>

\* lines 355-357: the second loop calls get_artists_from_event
HarvestAgainCall ==
    /\ pc = "harvest_again" /\ idx <= Len(all_event_urls)
    /\ EnterEventFetch(all_event_urls[idx])
    /\ pc' = "fetch_event_again"
    /\ UNCHANGED <<args, all_event_urls, year, idx, event_urls, all_artists,
                   failed_count, sorted_artists, output_lines, file_text, stdout,
                   messages, exit_status, page_results, fnVars>>

\* lines 169 and 357-359: the second loop takes the artists of the event
HarvestAgainMerge ==
    /\ pc = "fetch_event_again" /\ loop = "ended"
    /\ all_artists' = all_artists \cup artists
    /\ calls' = Append(calls, Sleep(EVENT_SLEEP))
    /\ idx' = idx + 1
    /\ pc' = "harvest_again"
    /\ LeaveFetch
    /\ UNCHANGED <<args, all_event_urls, year, failed_count, sorted_artists,
                   output_lines, file_text, stdout, messages, exit_status, page_results, fnVars>>

\* lines 361-373: the artists are sorted and the output lines prepared
SortAndFormat ==
    /\ pc = "harvest_again" /\ idx > Len(all_event_urls)
    /\ \E order \in IterationOrders(all_artists) :
          /\ sorted_artists' = sort_artists(order, args.ignore_the)
          /\ output_lines' = OutputLines(sort_artists(order, args.ignore_the),
                                         args.ignore_the, args.letter_headings)
    /\ pc' = "output"
    /\ UNCHANGED <<args, all_event_urls, year, idx, url, attempt, loop, event_urls,
                   artists, flog, calls, all_artists, failed_count, file_text, stdout,
                   messages, exit_status, page_results, fnVars>>

\* lines 376-380: the output file is written
WriteFile ==
    /\ pc = "output" /\ args.output
    /\ file_text' = JoinLines(output_lines)
    /\ messages' = messages \cup {"Results written"}
    /\ exit_status' = 0
    /\ pc' = "exited"
    /\ UNCHANGED <<args, all_event_urls, year, idx, url, attempt, loop, event_urls,
                   artists, flog, calls, all_artists, failed_count, sorted_artists,
                   output_lines, stdout, page_results, fnVars>>

\* lines 381-383: writing the output file raised IOError
WriteFileError ==
    /\ pc = "output" /\ args.output
    /\ messages' = messages \cup {"Error writing to file"}
    /\ exit_status' = 1
    /\ pc' = "exited"
    /\ UNCHANGED <<args, all_event_urls, year, idx, url, attempt, loop, event_urls,
                   artists, flog, calls, all_artists, failed_count, sorted_artists,
                   output_lines, file_text, stdout, page_results, fnVars>>

\* lines 384-386: the output lines are printed
PrintOutput ==
    /\ pc = "output" /\ ~args.output
    /\ stdout' = stdout \o output_lines
    /\ exit_status' = 0
    /\ pc' = "exited"
    /\ UNCHANGED <<args, all_event_urls, year, idx, url, attempt, loop, event_urls,
                   artists, flog, calls, all_artists, failed_count, sorted_artists,
                   output_lines, file_text, messages, page_results, fnVars>>

Next ==
    \/ CrawlMainPage
    \/ \E p \in 1..Len(ListingPages) : PageAttemptOk(p)
    \/ \E s \in ErrorStatuses : PageAttemptStatus(s)
    \/ PageAttemptException
    \/ CrawlMainMerge
    \/ CrawlYearPage
    \/ CrawlYearMerge
    \/ NoEventsExit
    \/ HarvestBegin
    \/ HarvestCall
    \/ \E p \in 1..Len(LineupPages) : EventAttemptOk(p)
    \/ \E s \in ErrorStatuses : EventAttemptStatus(s)
    \/ EventAttemptException
    \/ HarvestMerge
    \/ HarvestAgainBegin
    \/ HarvestAgainCall
    \/ HarvestAgainMerge
    \/ SortAndFormat
    \/ WriteFile
    \/ WriteFileError
    \/ PrintOutput

Spec == Init /\ [][Next]_vars


(***************************************************************************)
(* The functions on their own: the main program is parked and the          *)
(* function is applied to inputs drawn from bounded sets.                  *)
(***************************************************************************)
MainParked ==
    /\ pc = "parked"
    /\ args = [start_year |-> FirstYear, end_year |-> FirstYear, ignore_the |-> FALSE,
               letter_headings |-> FALSE, output |-> FALSE]
    /\ all_event_urls = <<>> /\ year = 0 /\ idx = 0 /\ url = <<>> /\ attempt = 0
    /\ loop = "ended" /\ event_urls = <<>> /\ artists = {} /\ flog = <<>>
    /\ calls = <<>> /\ all_artists = {} /\ failed_count = 0 /\ sorted_artists = <<>>
    /\ output_lines = <<>> /\ file_text = <<>> /\ stdout = <<>> /\ messages = {}
    /\ exit_status = -1 /\ page_results = <<>>

\* the concatenations of at most n elements of a set of strings
RECURSIVE Concats(_, _)
Concats(S, n) ==
    IF n = 0 THEN {<<>>}
    ELSE Concats(S, n - 1) \cup {a \o b : a \in Concats(S, n - 1), b \in S}

\* the sequences of at most n elements of a set
RECURSIVE SeqsUpTo(_, _)
SeqsUpTo(S, n) ==
    IF n = 0 THEN {<<>>}
    ELSE SeqsUpTo(S, n - 1) \cup {Append(a, b) : a \in SeqsUpTo(S, n - 1), b \in S}

\* the subsets of at most n elements of a set
RECURSIVE SubsetsUpTo(_, _)
SubsetsUpTo(S, n) ==
    IF n = 0 THEN {{}}
    ELSE SubsetsUpTo(S, n - 1) \cup {A \cup {b} : A \in SubsetsUpTo(S, n - 1), b \in S}

(*************************** canonicalization ******************************)
\* the number of trailing path segments of a drawn href
MaxSegments == 2

\* '/event/1'
H_event1 == <<47, 101, 118, 101, 110, 116, 47, 49>>
\* '/event/22'
H_event22 == <<47, 101, 118, 101, 110, 116, 47, 50, 50>>
\* '?a=1'
H_query == <<63, 97, 61, 49>>
\* 'x/event/1'
H_relative == <<120, 47, 101, 118, 101, 110, 116, 47, 49>>

\* the hrefs drawn: relative or absolute, an event path, trailing segments
\* among the stripped suffixes and '/', and no query, an empty one or one
CanonHrefs ==
    {prefix \o path \o segs \o query :
        prefix \in {<<>>, BASE_URL},
        path \in {H_event1, H_event22},
        segs \in Concats({STR_ATTENDANCE, STR_GOING, STR_INTERESTED, STR_LINEUP, STR_SLASH},
                         MaxSegments),
        query \in {<<>>, STR_QMARK, H_query}}
    \cup {H_relative, H_relative \o STR_LINEUP \o H_query, H_next}

CanonInit ==
    /\ MainParked
    /\ phase = "href"
    /\ input \in CanonHrefs
    /\ result = <<>>
    /\ result2 = <<>>

\* lines 64-72 applied to the href of an anchor
Canonicalize ==
    /\ phase = "href"
    /\ Contains(input, STR_EVENT)
    /\ result' = Canonical(input)
    /\ phase' = "canonical"
    /\ UNCHANGED <<input, result2, mainVars>>

\* lines 64-72 applied to the URL they produced
CanonicalizeAgain ==
    /\ phase = "canonical"
    /\ result2' = Canonical(result)
    /\ phase' = "recanonical"
    /\ UNCHANGED <<input, result, mainVars>>

CanonNext == Canonicalize \/ CanonicalizeAgain

CanonSpec == CanonInit /\ [][CanonNext]_vars

(****************************** extraction *********************************)
\* the number of anchors of a drawn listing page
MaxAnchors == 3

\* the hrefs of the anchors drawn
ExtractHrefs == {H_123a, H_123b, H_123att, H_123abs, H_456, H_user, H_next}

ExtractInit ==
    /\ MainParked
    /\ phase = "page"
    /\ input \in SeqsUpTo({Anchor(h, c) : h \in ExtractHrefs, c \in BOOLEAN}, MaxAnchors)
    /\ result = <<>>
    /\ result2 = <<>>

\* lines 40-74 applied to a parsed listing page
ExtractPage ==
    /\ phase = "page"
    /\ result' = ExtractEventUrls(input, <<>>)
    /\ phase' = "extracted"
    /\ UNCHANGED <<input, result2, mainVars>>

ExtractNext == ExtractPage

ExtractSpec == ExtractInit /\ [][ExtractNext]_vars

(*************************** sorting and grouping **************************)
\* the number of artists of a drawn set
MaxArtists == 3

\* 'abba'
N_abba == <<97, 98, 98, 97>>
\* 'Who'
N_Who == <<87, 104, 111>>
\* U+00C9 'dith'
N_Edith == <<201, 100, 105, 116, 104>>
\* U+00DF 'eta'
N_sharp_s == <<223, 101, 116, 97>>
\* 'The '
N_The_sp == <<84, 104, 101, 32>>

\* the artist names drawn: stripped and non-empty, as ExtractArtists yields
ArtistNames ==
    {Strip(article \o name) :
        article \in {<<>>, STR_THE, N_The_sp},
        name \in {<<>>, T_ABBA, N_abba, N_Who, T_123_Band, N_Edith, N_sharp_s}}
    \ {<<>>}

\* the set of the sort's example
ExampleArtists == {T_the_Beatles, T_ABBA, T_Zebra, T_123_Band}

SortInit ==
    /\ MainParked
    /\ phase = "artists"
    /\ input \in [artists : SubsetsUpTo(ArtistNames, MaxArtists) \cup {ExampleArtists},
                  ignore_the : BOOLEAN]
    /\ result = <<>>
    /\ result2 = <<>>

\* line 364: sort_artists applied to a set of artists
SortArtists ==
    /\ phase = "artists"
    /\ \E order \in IterationOrders(input.artists) :
          result' = sort_artists(order, input.ignore_the)
    /\ phase' = "sorted"
    /\ UNCHANGED <<input, result2, mainVars>>

\* line 370: format_output_with_headings applied to the sorted list
FormatOutput ==
    /\ phase = "sorted"
    /\ result2' = format_output_with_headings(result, input.ignore_the)
    /\ phase' = "formatted"
    /\ UNCHANGED <<input, result, mainVars>>

SortNext == SortArtists \/ FormatOutput

SortSpec == SortInit /\ [][SortNext]_vars


(***************************************************************************)
(* Properties.                                                             *)
(***************************************************************************)
IsRequest(e) == e.ev \in {"response", "exception"}
IsOk(e) == e.ev = "response" /\ e.n = 200
Requests(log) == SelectSeq(log, IsRequest)
PageFetching == pc \in {"fetch_main", "fetch_year"}
EventFetching == pc \in {"fetch_event", "fetch_event_again"}
InFetch == PageFetching \/ EventFetching
Crawling == pc \in {"start", "fetch_main", "fetch_year", "year_loop"}
OnlyErrorStatuses(log) ==
    \A k \in 1..Len(log) : IsRequest(log[k]) => log[k].ev = "response" /\ log[k].n # 200
Last(s) == s[Len(s)]

\* C1: in both fetching routines, when every attempt returned a non-200
\* status the URL was requested exactly 3 times, with a 5-second sleep
\* between consecutive attempts and none after the last, and the routine
\* returns an empty result.
C1_RetryExhaustion ==
    (InFetch /\ loop = "ended" /\ OnlyErrorStatuses(flog)) =>
        /\ Len(Requests(flog)) = 3
        /\ Len(flog) = 5
        /\ \A k \in {1, 3, 5} : IsRequest(flog[k])
        /\ \A k \in {2, 4} : flog[k].ev = "sleep" /\ flog[k].n = 5000
        /\ PageFetching => event_urls = <<>> /\ ENABLED (CrawlMainMerge \/ CrawlYearMerge)
        /\ EventFetching => artists = {} /\ ENABLED (HarvestMerge \/ HarvestAgainMerge)

\* a lineup fetch of the first harvest loop has ended after three non-200
\* responses
C1_Witness ==
    /\ pc = "fetch_event" /\ loop = "ended"
    /\ Len(Requests(flog)) = 3
    /\ OnlyErrorStatuses(flog)

\* C9: whatever the outcomes of the attempts of a fetch, at most 3 requests
\* are made, none after the first 200 response, one 5-second sleep separates
\* consecutive attempts and none follows the final attempt, and the result is
\* the one extracted from the first 200 response, or empty when no attempt
\* returned 200.
C9_FetchDiscipline ==
    InFetch =>
        /\ Len(Requests(flog)) <= 3
        /\ Len(Requests(flog)) = 3 => loop = "ended"
        /\ \A k \in 1..Len(flog) : IsOk(flog[k]) => k = Len(flog) /\ loop = "ended"
        /\ \A k \in 1..Len(flog) :
              flog[k].ev = "sleep" =>
                 /\ flog[k].n = 5000
                 /\ k > 1 /\ IsRequest(flog[k - 1])
                 /\ k = Len(flog) => loop = "running"
        /\ \A k \in 1..(Len(flog) - 1) : IsRequest(flog[k]) => flog[k + 1].ev = "sleep"
        /\ loop = "ended" => flog # <<>> /\ IsRequest(Last(flog))
        /\ (loop = "ended" /\ PageFetching) =>
              event_urls = IF IsOk(Last(flog))
                           THEN ExtractEventUrls(ListingPages[Last(flog).page], <<>>)
                           ELSE <<>>
        /\ (loop = "ended" /\ EventFetching) =>
              artists = IF IsOk(Last(flog))
                        THEN ExtractArtists(LineupPages[Last(flog).page])
                        ELSE {}

\* a year page was fetched with an exception, then a non-200 response, then
\* a 200 response with events on the page
C9_Witness ==
    /\ pc = "fetch_year" /\ loop = "ended"
    /\ Len(flog) = 5
    /\ flog[1].ev = "exception"
    /\ flog[3].ev = "response" /\ flog[3].n # 200
    /\ IsOk(flog[5])
    /\ event_urls # <<>>

\* the URLs of the calls of get_artists_from_event, in the order of the calls
HarvestedUrls ==
    LET h == SelectSeq(calls, LAMBDA c : c.op = "get_artists_from_event")
    IN  [k \in 1..Len(h) |-> h[k].url]

\* C4: a run of main() that discovered events calls get_artists_from_event
\* exactly once per event URL, in crawl order.
C4_EachEventHarvestedOnce ==
    pc \in {"output", "exited"} /\ all_event_urls # <<>> => HarvestedUrls = all_event_urls

\* C6: when the crawl returns no event URL, main reports 'No events found'
\* and exits with status 0; get_artists_from_event is never called and
\* nothing is sorted, prepared or written.
C6_NoEventsExit ==
    /\ (pc = "year_loop" /\ year > args.end_year /\ all_event_urls = <<>>) =>
          ENABLED NoEventsExit /\ ~ENABLED HarvestBegin
    /\ (~Crawling /\ all_event_urls = <<>>) =>
          /\ pc = "exited"
          /\ messages = {"No events found"}
          /\ exit_status = 0
          /\ HarvestedUrls = <<>>
          /\ sorted_artists = <<>> /\ output_lines = <<>>
          /\ file_text = <<>> /\ stdout = <<>>

\* main has exited after a crawl of at least two pages that found no event
C6_Witness ==
    /\ pc = "exited" /\ all_event_urls = <<>>
    /\ "No events found" \in messages
    /\ Len(calls) >= 4

\* the elements of a sequence in the order of their first occurrence
RECURSIVE FirstSeen(_)
FirstSeen(s) ==
    IF s = <<>> THEN <<>>
    ELSE LET rest == FirstSeen(SubSeq(s, 1, Len(s) - 1))
         IN  IF InList(Last(s), rest) THEN rest ELSE Append(rest, Last(s))

\* the URLs the page fetches returned, in the order they were returned
RECURSIVE ReturnedUrls(_)
ReturnedUrls(results) ==
    IF results = <<>> THEN <<>> ELSE Head(results).urls \o ReturnedUrls(Tail(results))

\* C8: throughout get_all_event_urls the accumulated list has no duplicate
\* and holds exactly the URLs some page extraction returned, each at the
\* position of its first discovery.
C8_MergedUrls ==
    Crawling =>
        /\ all_event_urls = FirstSeen(ReturnedUrls(page_results))
        /\ \A j, k \in 1..Len(all_event_urls) :
              all_event_urls[j] = all_event_urls[k] => j = k

\* the crawl is over, two events were found and a page returned a URL that
\* an earlier page had returned
C8_Witness ==
    /\ pc = "year_loop" /\ year > args.end_year
    /\ Len(all_event_urls) = 2
    /\ Len(ReturnedUrls(page_results)) > 2

\* the pages get_all_event_urls fetches, in order
ExpectedPages ==
    <<main_url(Username)>>
    \o [k \in 1..(IF args.end_year >= args.start_year
                  THEN args.end_year - args.start_year + 1 ELSE 0) |->
           year_url(Username, args.start_year + k - 1)]

\* the page fetches and 1-second sleeps of the run, in order
CrawlCalls ==
    SelectSeq(calls, LAMBDA c : c.op = "get_event_urls_from_page"
                                \/ (c.op = "sleep" /\ c.ms = 1000))

\* C10, the state part: the pages are fetched one at a time, the main page
\* and then the years of the range in ascending order, each fetch followed by
\* one 1-second sleep; a fetch that got no 200 response returned no URL; and
\* once the crawl is over every page was fetched.
C10_CrawlOrder ==
    /\ Len(CrawlCalls) <= 2 * Len(ExpectedPages)
    /\ SubSeq(calls, 1, Len(CrawlCalls)) = CrawlCalls
    /\ \A k \in 1..Len(CrawlCalls) :
          IF k % 2 = 1
          THEN CrawlCalls[k] = Fetch("get_event_urls_from_page", ExpectedPages[(k + 1) \div 2])
          ELSE CrawlCalls[k].op = "sleep"
    /\ PageFetching <=> Len(CrawlCalls) % 2 = 1
    /\ Crawling => Len(page_results) = Len(CrawlCalls) \div 2
    /\ \A k \in 1..Len(page_results) : ~page_results[k].ok => page_results[k].urls = <<>>
    /\ (~Crawling \/ (pc = "year_loop" /\ year > args.end_year)) =>
          Len(CrawlCalls) = 2 * Len(ExpectedPages)

\* C10, the step part: the return of a fetch that got no 200 response leaves
\* the accumulated list unchanged.
C10_FailedPageStep ==
    (PageFetching /\ loop = "ended" /\ ~IsOk(Last(flog))) =>
        all_event_urls' = all_event_urls

\* C10: get_all_event_urls fetches exactly the main page and the pages of
\* the years of [start_year, end_year] in ascending order, one at a time,
\* each followed by one 1-second sleep whatever its outcome; a page whose
\* fetch fails contributes no URL, leaves the accumulated list unchanged and
\* the later pages are fetched all the same.
C10_Crawl == [](C10_CrawlOrder) /\ [][C10_FailedPageStep]_vars

\* the crawl is over; a page that failed was followed by a page that
\* returned events
C10_Witness ==
    /\ pc = "year_loop" /\ year > args.end_year
    /\ \E k \in 1..(Len(page_results) - 1) :
          /\ ~page_results[k].ok
          /\ page_results[k + 1].ok /\ page_results[k + 1].urls # <<>>

\* C2: every URL get_event_urls_from_page returns ends in '/lineup', holds
\* no '?' and occurs once in the list; anchors of one event that differ in
\* their query strings only yield one returned URL.
C2_ExtractedUrls ==
    phase = "extracted" =>
        /\ \A k \in 1..Len(result) :
              EndsWith(result[k], STR_LINEUP) /\ FindChar(result[k], 63) = 0
        /\ \A j, k \in 1..Len(result) : result[j] = result[k] => j = k
        /\ \A j, k \in 1..Len(input) :
              (/\ Contains(input[j].href, STR_EVENT)
               /\ Contains(input[k].href, STR_EVENT)
               /\ SplitFirst(input[j].href, 63) = SplitFirst(input[k].href, 63)) =>
                  /\ Canonical(input[j].href) = Canonical(input[k].href)
                  /\ Cardinality({n \in 1..Len(result) :
                                     result[n] = Canonical(input[j].href)}) = 1
        /\ {input[k].href : k \in 1..Len(input)} = {H_123a, H_123b} =>
              result = <<H_123abs>>

\* a page with two anchors of event 123 that differ in their query strings
\* yielded one URL
C2_Witness ==
    /\ phase = "extracted"
    /\ \E j, k \in 1..Len(input) : input[j].href = H_123a /\ input[k].href = H_123b
    /\ Len(result) = 1

\* C3: the canonicalization of an href containing '/event/' is idempotent:
\* canonicalizing the canonical URL returns it unchanged.
C3_Idempotent ==
    phase = "recanonical" => result2 = result /\ EndsWith(result2, STR_LINEUP)

\* an href with a query string whose path already ends in '/lineup' was
\* canonicalized twice
C3_Witness ==
    /\ phase = "recanonical"
    /\ FindChar(input, 63) > 0
    /\ EndsWith(SplitFirst(input, 63), STR_LINEUP)

\* the headings of the grouped output, in order
Headings == <<HeadingLine(STR_NUMSYM)>> \o [k \in 1..26 |-> HeadingLine(<<STR_AZ[k]>>)]

\* the index of the k-th heading in the output lines, 0 if it is missing
HeadingAt(lines, k) ==
    IF InList(Headings[k], lines)
    THEN CHOOSE n \in 1..Len(lines) : lines[n] = Headings[k]
    ELSE 0

\* the lines under the k-th heading
Section(lines, k) ==
    SubSeq(lines, HeadingAt(lines, k) + 1,
           IF k < Len(Headings) THEN HeadingAt(lines, k + 1) - 1 ELSE Len(lines))

\* the character a name is grouped by: its first one, or under ignore_the
\* the first one after a leading 'the '
GroupingChar(name, ignore_the) ==
    IF ignore_the /\ Len(name) > 4 /\ Lower(SubSeq(name, 1, 4)) = STR_THE
    THEN name[5] ELSE name[1]

\* the heading a name belongs under: the letter's when the grouping
\* character is an ASCII letter, 'Numbers & Symbols' otherwise
HeadingOf(name, ignore_the) ==
    LET c == GroupingChar(name, ignore_the)
    IN  IF c >= 65 /\ c <= 90 THEN c - 63
        ELSE IF c >= 97 /\ c <= 122 THEN c - 95
        ELSE 1

\* C5: format_output_with_headings puts every name under exactly one of the
\* 27 headings, the one its first character after the optional 'The '
\* selects; no name is left out or repeated, and a heading without members
\* is followed by the line '(none)'.
C5_GroupedExhaustive ==
    phase = "formatted" =>
        /\ \A k \in 1..Len(Headings) : HeadingAt(result2, k) > 0
        /\ \A name \in input.artists : \A k \in 1..Len(Headings) :
              Cardinality({n \in 1..Len(Section(result2, k)) :
                              Section(result2, k)[n] = name})
                  = IF k = HeadingOf(name, input.ignore_the) THEN 1 ELSE 0
        /\ \A k \in 1..Len(Headings) :
              (\A name \in input.artists : HeadingOf(name, input.ignore_the) # k) =>
                  Section(result2, k) = <<STR_NONE>>

\* the key C7 sorts by
ClaimedKey(name, ignore_the) ==
    IF ignore_the /\ Len(name) > 4 /\ Lower(SubSeq(name, 1, 4)) = STR_THE
    THEN Lower(SubSeq(name, 5, Len(name)))
    ELSE Lower(name)

\* C7: sort_artists returns the names of the set, each once, in
\* non-decreasing order of the key: the lower-cased name, without its first
\* 4 characters when ignore_the is set and the name starts with 'the '
\* in any case; the example set sorts to 123 Band, ABBA, the Beatles, Zebra.
C7_Sorted ==
    phase \in {"sorted", "formatted"} =>
        /\ Len(result) = Cardinality(input.artists)
        /\ {result[k] : k \in 1..Len(result)} = input.artists
        /\ \A j, k \in 1..Len(result) :
              j < k => ~StrLess(ClaimedKey(result[k], input.ignore_the),
                                ClaimedKey(result[j], input.ignore_the))
        /\ (input.artists = ExampleArtists /\ input.ignore_the) =>
              result = <<T_123_Band, T_ABBA, T_the_Beatles, T_Zebra>>

\* the example set was sorted with ignore_the set
C7_Witness ==
    /\ phase = "sorted"
    /\ input.artists = ExampleArtists /\ input.ignore_the
    /\ Len(result) = 4

=============================================================================
